---------------------------- MODULE Spec2Model ----------------------------
(***************************************************************************)
(* Toggle service: an in-memory map guid -> bool, persisted as one JSON    *)
(* snapshot through an atomic temp-file + rename protocol.                 *)
(*                                                                         *)
(* Two programs share the persistence engine and are modelled here:        *)
(*   Spec      the packaged service, toggle_service/app.py with            *)
(*             toggle_service/persistence.py                               *)
(*   SpecMain  the single-file service, main.py                            *)
(*   SpecRT    the persistence engine alone: save(M) then load             *)
(*                                                                         *)
(* A guid is a uuid4 string; the model writes guids as 1..MaxIds and the   *)
(* lexicographic order of the strings as the order of the numbers.         *)
(***************************************************************************)
EXTENDS Integers, Sequences, FiniteSets, TLC

\* ---- bounds ----
MaxIds == 2
NReq == 2
MaxOps == 2
MaxFaults == 1
MaxLen == 3

Ids == 1..MaxIds
Reqs == 1..NReq
NoOwner == 0
LifespanTask == NReq + 1

\* ---- the store as a value: a function from a set of guids to BOOLEAN ----
EmptyMap == [k \in {} |-> TRUE]
AllMappings == UNION {[D -> BOOLEAN] : D \in SUBSET Ids}

\* ---- the persisted format: a sequence of the chunks json.dump writes ----
\* "{" ... "}" around one chunk per item, or the single chunk "{}".
ChOpen == <<"{", 0, "">>
ChClose == <<"}", 0, "">>
ChEmpty == <<"{}", 0, "">>
ChItem(k, lit) == <<"kv", k, lit>>

\* variant: truth of the literal's text, as bool("false") would give
PyBool_TextTruth(lit) == lit \notin {"null", "0"}

\* JSON literal of a Python bool (json.dump) and Python truth of a JSON value
\* (bool(v) in _load_sync).
BoolLit(b) == IF b THEN "true" ELSE "false"
JsonLits == {"true", "false", "null", "0", "1"}
PyBool(lit) == lit \in {"true", "1"}

NoFile == [exists |-> FALSE, content |-> <<>>]
FileOf(c) == [exists |-> TRUE, content |-> c]

\* sorted(dct.items()): the items in ascending key order
RECURSIVE SortedKeys(_)
SortedKeys(S) ==
  IF S = {} THEN <<>>
  ELSE LET m == CHOOSE x \in S : \A y \in S : x <= y
       IN <<m>> \o SortedKeys(S \ {m})

SortedItems(M) ==
  LET ks == SortedKeys(DOMAIN M)
  IN [i \in 1..Len(ks) |-> ChItem(ks[i], BoolLit(M[ks[i]]))]

\* json.dump(data, f, indent=2, sort_keys=True): the full chunk sequence
Serialize(M) ==
  IF DOMAIN M = {} THEN <<ChEmpty>>
  ELSE <<ChOpen>> \o SortedItems(M) \o <<ChClose>>

\* json.load: does the content decode to a JSON object
IsObject(c) ==
  \/ c = <<ChEmpty>>
  \/ /\ Len(c) >= 2
     /\ c[1] = ChOpen
     /\ c[Len(c)] = ChClose
     /\ \A i \in 2..(Len(c) - 1) : c[i][1] = "kv" /\ c[i][3] \in JsonLits

\* the dict json.load builds: a repeated key keeps its last value
Decode(c) ==
  LET idx == {i \in 2..(Len(c) - 1) : TRUE}
      keys == {c[i][2] : i \in idx}
      last(k) == CHOOSE i \in idx : c[i][2] = k /\ \A j \in idx : c[j][2] = k => j <= i
  IN [k \in keys |-> c[last(k)][3]]

\* _load_sync
LoadSync(f) ==
  IF ~f.exists THEN EmptyMap
  ELSE IF IsObject(f.content)
       THEN LET d == Decode(f.content) IN [k \in DOMAIN d |-> PyBool(d[k])]
       ELSE EmptyMap

\* ---- what else can be found at the path: any short sequence of chunks ----
\* a top-level value that is not an object, and bytes that are not UTF-8 text
ChArray == <<"[]", 0, "">>
ChBytes == <<"\\xff", 0, "">>
Chunks ==
  {ChOpen, ChClose, ChEmpty, ChArray, ChBytes}
    \cup {ChItem(k, lit) : k \in Ids, lit \in JsonLits}
Contents == UNION {[1..n -> Chunks] : n \in 0..MaxLen}

\* open(path, "r", encoding="utf-8") and f.read() inside json.load: the bytes
\* decode as text.  If they do not, UnicodeDecodeError is raised, a ValueError
\* that is neither an OSError nor a json.JSONDecodeError, so the except clause
\* of _load_sync does not catch it.
Decodable(c) == \A i \in 1..Len(c) : c[i] # ChBytes

\* variant: no os.path.exists test and no OSError in the except clause, so a
\* missing file makes open() raise out of the load
LoadRaises_NoExistsCheck(f) == ~f.exists \/ \E i \in 1..Len(f.content) : f.content[i] = ChBytes

\* _load_sync leaves by an exception
LoadRaises(f) == f.exists /\ ~Decodable(f.content)

\* variant: the dict is rebound to a new one holding only the new key
Put_Fresh(M, k, b) == [x \in {k} |-> b]

\* toggles[k] = b
Put(M, k, b) == [x \in (DOMAIN M) \cup {k} |-> IF x = k THEN b ELSE M[x]]

\* ---- state ----
VARIABLES
  toggles,    \* the in-memory store (dict guid -> bool) of the running process
  lock,       \* holder of _store_lock: NoOwner, a request, or LifespanTask
  req,        \* per request slot: the handler's position and locals
  last,       \* the response sent by the step just taken, if any
  sv,         \* the worker thread running _save_sync: position and locals
  tmp,        \* the temp file of the running save, or the last one left behind
  file,       \* the file at TOGGLES_FILE
  phase,      \* lifecycle of the process
  data,       \* on_startup's local: the loaded mapping
  minted,     \* guids uuid4 has produced so far
  ops,        \* requests admitted so far
  restarted,  \* whether the process has been started again on the file
  faults,     \* I/O errors and crashes so far
  lastOk,     \* history: per guid, state in the last success response of a mutation
  clean,      \* history: no mutation has failed or been cut off by a crash
  ntog,       \* history: per guid, toggle requests completed since base
  base,       \* history: per guid, state when loaded or created
  installed,  \* history: the snapshot taken by the save that installed file
  nmut,       \* history: mutations applied to the store by this process
  fver        \* history: how many of them the snapshot in file contains

vars == <<toggles, lock, req, last, sv, tmp, file, phase, data, minted,
          ops, restarted, faults, lastOk, clean, ntog, base, installed,
          nmut, fver>>

disk == <<tmp, file, installed>>
hist == <<lastOk, clean, ntog, base>>
vers == <<nmut, fver>>
proc == <<phase, data, restarted>>

IdleReq == [op |-> "none", pc |-> "idle", guid |-> 0, v |-> FALSE]
NoResp == [op |-> "none", guid |-> 0, code |-> 0, state |-> FALSE]
Resp(r, code, st) == [op |-> req[r].op, guid |-> req[r].guid, code |-> code, state |-> st]
IdleSave == [pc |-> "idle", owner |-> NoOwner, items |-> <<>>, n |-> 0,
             snap |-> EmptyMap, before |-> NoFile, err |-> FALSE, rmerr |-> FALSE,
             ver |-> 0, made |-> FALSE]

\* asyncio.to_thread(_save_sync, path, data): the thread gets the live dict
StartSave(owner) == [IdleSave EXCEPT !.pc = "mkstemp", !.owner = owner, !.before = file]

Running == phase \in {"starting", "loaded", "serving", "flushing"}
InFlight(r) == req[r].pc # "idle"

\* get_status: 404 for an unknown guid, else the current state
GetStatus(g) ==
  IF g \notin DOMAIN toggles THEN [code |-> 404, state |-> FALSE]
  ELSE [code |-> 200, state |-> toggles[g]]

\* The first run starts on no file or on the file an earlier run's save left,
\* with at least one guid still unused.
Init ==
  /\ \E M \in AllMappings :
       /\ \E n \in 0..(MaxIds - 1) : DOMAIN M = 1..n
       /\ file \in {NoFile, FileOf(Serialize(M))}
       /\ installed = M
       /\ minted = IF file.exists THEN DOMAIN M ELSE {}
       /\ file.exists \/ M = EmptyMap
  /\ toggles = EmptyMap
  /\ lock = NoOwner
  /\ req = [r \in Reqs |-> IdleReq]
  /\ last = NoResp
  /\ sv = IdleSave
  /\ tmp = NoFile
  /\ phase = "starting"
  /\ data = EmptyMap
  /\ ops = 0
  /\ restarted = FALSE
  /\ faults = 0
  /\ lastOk = [g \in Ids |-> "none"]
  /\ clean = TRUE
  /\ ntog = [g \in Ids |-> 0]
  /\ base = [g \in Ids |-> FALSE]
  /\ nmut = 0
  /\ fver = 0

\* ---- lifecycle ----
\* variant: the load is started in the background (asyncio.create_task) and
\* requests are admitted without waiting for it
StartupLoad_Background ==
  /\ phase = "starting"
  /\ phase' = "serving"
  /\ data' = LoadSync(file)
  /\ last' = NoResp
  /\ UNCHANGED <<toggles, lock, req, sv, disk, minted, ops, restarted, faults, hist, vers>>

\* on_startup: data = await load(TOGGLES_FILE); an exception of the load leaves
\* on_startup and the lifespan, and the server does not start
StartupLoad ==
  /\ phase = "starting"
  /\ IF LoadRaises(file)
     THEN /\ phase' = "failed"
          /\ data' = EmptyMap
     ELSE /\ phase' = "loaded"
          /\ data' = LoadSync(file)
  /\ last' = NoResp
  /\ UNCHANGED <<toggles, lock, req, sv, disk, minted, ops, restarted, faults, hist, vers>>

\* variant: the store is cleared and the loaded mapping is never put in
StartupReplace_ClearOnly ==
  /\ phase = "loaded"
  /\ toggles' = EmptyMap
  /\ phase' = "serving"
  /\ base' = [g \in Ids |-> IF g \in DOMAIN data THEN data[g] ELSE FALSE]
  /\ ntog' = [g \in Ids |-> 0]
  /\ data' = EmptyMap
  /\ last' = NoResp
  /\ UNCHANGED <<lock, req, sv, disk, minted, ops, restarted, faults, lastOk, clean, vers>>

\* on_startup: toggles.clear(); toggles.update(data); then requests are admitted
StartupReplace ==
  /\ phase = "loaded"
  /\ toggles' = data
  /\ phase' = "serving"
  /\ base' = [g \in Ids |-> IF g \in DOMAIN data THEN data[g] ELSE FALSE]
  /\ ntog' = [g \in Ids |-> 0]
  /\ data' = EmptyMap
  /\ last' = NoResp
  /\ UNCHANGED <<lock, req, sv, disk, minted, ops, restarted, faults, lastOk, clean, vers>>

\* variant: the flush saves without taking _store_lock
OnShutdown_NoLock ==
  /\ phase = "serving"
  /\ \A r \in Reqs : req[r].pc = "idle"
  /\ sv.pc = "idle"
  /\ sv' = [pc |-> "mkstemp", owner |-> LifespanTask, items |-> <<>>, n |-> 0,
            snap |-> EmptyMap, before |-> file, err |-> FALSE,
                    rmerr |-> FALSE, ver |-> 0, made |-> FALSE]
  /\ phase' = "flushing"
  /\ last' = NoResp
  /\ UNCHANGED <<toggles, lock, req, disk, data, minted, ops, restarted, faults, hist, vers>>

\* on_shutdown: async with _store_lock: await save(TOGGLES_FILE, toggles).
\* The server stops admitting requests and delivers the lifespan shutdown event
\* once the admitted ones have been answered.
OnShutdown ==
  /\ phase = "serving"
  /\ \A r \in Reqs : ~InFlight(r)
  /\ lock = NoOwner
  /\ lock' = LifespanTask
  /\ sv' = StartSave(LifespanTask)
  /\ phase' = "flushing"
  /\ last' = NoResp
  /\ UNCHANGED <<toggles, req, disk, data, minted, ops, restarted, faults, hist, vers>>

\* on_shutdown resumes after the save (returned or raised); the lock is released
OnShutdownReturn ==
  /\ phase = "flushing"
  /\ sv.pc = "ret"
  /\ sv.owner = LifespanTask
  /\ lock' = NoOwner
  /\ sv' = IdleSave
  /\ last' = [NoResp EXCEPT !.op = "shutdown", !.code = IF sv.err THEN 500 ELSE 200]
  /\ phase' = "stopped"
  /\ UNCHANGED <<toggles, req, disk, data, minted, ops, restarted, faults, hist, vers>>

\* the process is killed: its memory is gone, the directory stays as it is
Crash ==
  /\ Running
  /\ faults < MaxFaults
  /\ faults' = faults + 1
  /\ phase' = "crashed"
  /\ clean' = (clean /\ \A r \in Reqs : req[r].pc \in {"idle", "start"})
  /\ toggles' = EmptyMap
  /\ lock' = NoOwner
  /\ req' = [r \in Reqs |-> IdleReq]
  /\ last' = NoResp
  /\ data' = EmptyMap
  /\ ntog' = [g \in Ids |-> 0]
  /\ base' = [g \in Ids |-> FALSE]
  /\ nmut' = 0
  /\ fver' = 0
  /\ UNCHANGED <<sv, disk, minted, ops, restarted, lastOk>>

\* a new process is started on the same file
Restart ==
  /\ phase \in {"stopped", "crashed"}
  /\ restarted' = TRUE
  /\ phase' = "starting"
  /\ toggles' = EmptyMap
  /\ lock' = NoOwner
  /\ req' = [r \in Reqs |-> IdleReq]
  /\ sv' = IdleSave
  /\ tmp' = NoFile
  /\ data' = EmptyMap
  /\ last' = NoResp
  /\ ntog' = [g \in Ids |-> 0]
  /\ base' = [g \in Ids |-> FALSE]
  /\ nmut' = 0
  /\ fver' = 0
  /\ UNCHANGED <<file, installed, minted, ops, faults, lastOk, clean>>

\* ---- _save_sync, step by step, in its worker thread ----
ThreadAlive == phase \notin {"crashed", "stopped"}

\* variant: the target itself is opened for writing, which truncates it
SaveMkstemp_InPlace ==
  /\ ThreadAlive
  /\ sv.pc = "mkstemp"
  /\ tmp' = FileOf(<<>>)
  /\ file' = FileOf(<<>>)
  /\ sv' = [sv EXCEPT !.pc = "dump", !.made = TRUE]
  /\ last' = NoResp
  /\ UNCHANGED <<toggles, lock, req, installed, proc, minted, ops, faults, hist, vers>>

\* os.makedirs; fd, tmp_path = tempfile.mkstemp(dir=dirpath)
SaveMkstemp ==
  /\ ThreadAlive
  /\ sv.pc = "mkstemp"
  /\ tmp' = FileOf(<<>>)
  /\ sv' = [sv EXCEPT !.pc = "dump", !.made = TRUE]
  /\ last' = NoResp
  /\ UNCHANGED <<toggles, lock, req, file, installed, proc, minted, ops, faults, hist, vers>>

\* makedirs or mkstemp raises: nothing was created, the exception leaves _save_sync
SaveMkstempFail ==
  /\ ThreadAlive
  /\ sv.pc = "mkstemp"
  /\ faults < MaxFaults
  /\ faults' = faults + 1
  /\ sv' = [sv EXCEPT !.pc = "ret", !.err = TRUE]
  /\ last' = NoResp
  /\ UNCHANGED <<toggles, lock, req, disk, proc, minted, ops, hist, vers>>

\* variant: os.replace is called as soon as the first chunk is written
SaveDump_ReplaceFirst ==
  /\ ThreadAlive
  /\ sv.pc = "dump"
  /\ IF DOMAIN toggles = {}
     THEN /\ tmp' = FileOf(Append(tmp.content, ChEmpty))
          /\ sv' = [sv EXCEPT !.pc = "fsync", !.snap = EmptyMap, !.ver = nmut]
     ELSE /\ tmp' = FileOf(Append(tmp.content, ChOpen))
          /\ sv' = [sv EXCEPT !.pc = "write", !.items = SortedItems(toggles),
                               !.snap = toggles, !.ver = nmut]
  /\ file' = tmp'
  /\ last' = NoResp
  /\ UNCHANGED <<toggles, lock, req, installed, proc, minted, ops, faults, hist, vers>>

\* json.dump starts: "{}" for an empty dict; else "{" and items = sorted(dct.items()),
\* which reads the live dict in one piece
SaveDump ==
  /\ ThreadAlive
  /\ sv.pc = "dump"
  /\ IF DOMAIN toggles = {}
     THEN /\ tmp' = FileOf(Append(tmp.content, ChEmpty))
          /\ sv' = [sv EXCEPT !.pc = "fsync", !.snap = EmptyMap, !.ver = nmut]
     ELSE /\ tmp' = FileOf(Append(tmp.content, ChOpen))
          /\ sv' = [sv EXCEPT !.pc = "write", !.items = SortedItems(toggles),
                               !.snap = toggles, !.ver = nmut]
  /\ last' = NoResp
  /\ UNCHANGED <<toggles, lock, req, file, installed, proc, minted, ops, faults, hist, vers>>

\* f.write(chunk) for the next item, or the closing "}" after the last one
SaveWrite ==
  /\ ThreadAlive
  /\ sv.pc = "write"
  /\ IF sv.n < Len(sv.items)
     THEN /\ tmp' = FileOf(Append(tmp.content, sv.items[sv.n + 1]))
          /\ sv' = [sv EXCEPT !.n = sv.n + 1]
     ELSE /\ tmp' = FileOf(Append(tmp.content, ChClose))
          /\ sv' = [sv EXCEPT !.pc = "fsync"]
  /\ last' = NoResp
  /\ UNCHANGED <<toggles, lock, req, file, installed, proc, minted, ops, faults, hist, vers>>

\* f.flush(); os.fsync(f.fileno()); the file is closed
SaveFsync ==
  /\ ThreadAlive
  /\ sv.pc = "fsync"
  /\ sv' = [sv EXCEPT !.pc = "replace"]
  /\ last' = NoResp
  /\ UNCHANGED <<toggles, lock, req, disk, proc, minted, ops, faults, hist, vers>>

\* os.replace(tmp_path, path)
SaveReplace ==
  /\ ThreadAlive
  /\ sv.pc = "replace"
  /\ file' = tmp
  /\ tmp' = NoFile
  /\ installed' = sv.snap
  /\ fver' = sv.ver
  /\ sv' = [sv EXCEPT !.pc = "finally"]
  /\ last' = NoResp
  /\ UNCHANGED <<toggles, lock, req, proc, minted, ops, faults, hist, nmut>>

\* an OSError inside the try block: write, flush, fsync or replace
SaveIOError ==
  /\ ThreadAlive
  /\ sv.pc \in {"dump", "write", "fsync", "replace"}
  /\ faults < MaxFaults
  /\ faults' = faults + 1
  /\ sv' = [sv EXCEPT !.pc = "finally", !.err = TRUE]
  /\ last' = NoResp
  /\ UNCHANGED <<toggles, lock, req, disk, proc, minted, ops, hist, vers>>

\* variant: no cleanup in the finally block
SaveFinally_NoCleanup ==
  /\ ThreadAlive
  /\ sv.pc = "finally"
  /\ sv' = [sv EXCEPT !.pc = "ret"]
  /\ last' = NoResp
  /\ UNCHANGED <<toggles, lock, req, disk, proc, minted, ops, faults, hist, vers>>

\* finally: if os.path.exists(tmp_path): os.remove(tmp_path)
SaveFinally ==
  /\ ThreadAlive
  /\ sv.pc = "finally"
  /\ tmp' = NoFile
  /\ sv' = [sv EXCEPT !.pc = "ret"]
  /\ last' = NoResp
  /\ UNCHANGED <<toggles, lock, req, file, installed, proc, minted, ops, faults, hist, vers>>

\* finally: os.remove raises OSError, which is swallowed; the temp file stays
SaveRemoveFail ==
  /\ ThreadAlive
  /\ sv.pc = "finally"
  /\ tmp.exists
  /\ sv' = [sv EXCEPT !.pc = "ret", !.rmerr = TRUE]
  /\ last' = NoResp
  /\ UNCHANGED <<toggles, lock, req, disk, proc, minted, ops, faults, hist, vers>>

SaveThread ==
  \/ SaveMkstemp
  \/ SaveMkstempFail
  \/ SaveDump
  \/ SaveWrite
  \/ SaveFsync
  \/ SaveReplace
  \/ SaveIOError
  \/ SaveFinally
  \/ SaveRemoveFail

\* ---- requests ----
\* a mutating request is admitted; create_toggle draws guid = str(uuid.uuid4()),
\* a guid never drawn before (which one is immaterial: the least unused is taken,
\* and it also stands for every unknown guid a toggle can name).
\* Slots are interchangeable, so the lowest free one is used.  A request admitted
\* while a save is under way cannot act before it could have been admitted at the
\* save's start, so admission is taken at that point.
ReqBegin(r, op, g) ==
  /\ phase = "serving"
  /\ ~InFlight(r)
  /\ \A q \in Reqs : q < r => InFlight(q)
  /\ sv.pc \in {"idle", "mkstemp"}
  /\ ops < MaxOps
  /\ ops' = ops + 1
  /\ \/ g \in minted /\ op = "toggle"
     \/ g \notin minted /\ \A h \in Ids \ minted : g <= h
  /\ minted' = IF op = "create" THEN minted \cup {g} ELSE minted
  /\ req' = [req EXCEPT ![r] = [IdleReq EXCEPT !.op = op, !.pc = "start", !.guid = g]]
  /\ last' = NoResp
  /\ UNCHANGED <<toggles, lock, sv, disk, proc, faults, hist, vers>>

\* variant: no _store_lock around insert-and-save; the request's own save (its
\* temp file written and renamed) gets through while another save is under way
CreateToggle_Unlocked(r) ==
  /\ req[r].op = "create"
  /\ req[r].pc = "start"
  /\ toggles' = Put(toggles, req[r].guid, FALSE)
  /\ base' = [base EXCEPT ![req[r].guid] = FALSE]
  /\ ntog' = [ntog EXCEPT ![req[r].guid] = 0]
  /\ nmut' = nmut + 1
  /\ file' = FileOf(Serialize(toggles'))
  /\ installed' = toggles'
  /\ fver' = nmut + 1
  /\ last' = Resp(r, 200, FALSE)
  /\ lastOk' = [lastOk EXCEPT ![req[r].guid] = "false"]
  /\ req' = [req EXCEPT ![r] = IdleReq]
  /\ UNCHANGED <<lock, sv, tmp, proc, minted, ops, faults, clean>>

\* app.py create_toggle: take the lock, insert, hand the dict to save
CreateToggle(r) ==
  /\ req[r].op = "create"
  /\ req[r].pc = "start"
  /\ lock = NoOwner
  /\ lock' = r
  /\ toggles' = Put(toggles, req[r].guid, FALSE)
  /\ base' = [base EXCEPT ![req[r].guid] = FALSE]
  /\ ntog' = [ntog EXCEPT ![req[r].guid] = 0]
  /\ sv' = StartSave(r)
  /\ req' = [req EXCEPT ![r].pc = "saving"]
  /\ last' = NoResp
  /\ nmut' = nmut + 1
  /\ UNCHANGED <<disk, proc, minted, ops, faults, lastOk, clean, fver>>

\* variant: the flip is answered without a save (as main.py's toggle_state does)
ToggleState_NoSave(r) ==
  /\ req[r].op = "toggle"
  /\ req[r].pc = "start"
  /\ lock = NoOwner
  /\ IF req[r].guid \notin DOMAIN toggles
     THEN /\ last' = Resp(r, 404, FALSE)
          /\ UNCHANGED <<toggles, lastOk, ntog, nmut>>
     ELSE /\ toggles' = [toggles EXCEPT ![req[r].guid] = ~toggles[req[r].guid]]
          /\ last' = Resp(r, 200, ~toggles[req[r].guid])
          /\ lastOk' = [lastOk EXCEPT ![req[r].guid] = BoolLit(~toggles[req[r].guid])]
          /\ ntog' = [ntog EXCEPT ![req[r].guid] = ntog[req[r].guid] + 1]
          /\ nmut' = nmut + 1
  /\ req' = [req EXCEPT ![r] = IdleReq]
  /\ UNCHANGED <<lock, sv, disk, proc, minted, ops, faults, clean, base, fver>>

\* variant: the state is set to True instead of being inverted
ToggleState_SetTrue(r) ==
  /\ req[r].op = "toggle"
  /\ req[r].pc = "start"
  /\ lock = NoOwner
  /\ IF req[r].guid \notin DOMAIN toggles
     THEN /\ last' = Resp(r, 404, FALSE)
          /\ req' = [req EXCEPT ![r] = IdleReq]
          /\ UNCHANGED <<toggles, lock, sv, nmut>>
     ELSE /\ lock' = r
          /\ toggles' = [toggles EXCEPT ![req[r].guid] = TRUE]
          /\ sv' = [pc |-> "mkstemp", owner |-> r, items |-> <<>>, n |-> 0,
                    snap |-> EmptyMap, before |-> file, err |-> FALSE,
                    rmerr |-> FALSE, ver |-> 0, made |-> FALSE]
          /\ req' = [req EXCEPT ![r].pc = "saving"]
          /\ last' = NoResp
          /\ nmut' = nmut + 1
  /\ UNCHANGED <<disk, proc, minted, ops, faults, hist, fver>>

\* variant: an unknown guid is taken as False (toggles.get(guid, False)) and stored
ToggleState_Upsert(r) ==
  /\ req[r].op = "toggle"
  /\ req[r].pc = "start"
  /\ lock = NoOwner
  /\ lock' = r
  /\ toggles' = IF req[r].guid \in DOMAIN toggles
                THEN [toggles EXCEPT ![req[r].guid] = ~toggles[req[r].guid]]
                ELSE [x \in (DOMAIN toggles) \cup {req[r].guid} |->
                        IF x = req[r].guid THEN TRUE ELSE toggles[x]]
  /\ sv' = [pc |-> "mkstemp", owner |-> r, items |-> <<>>, n |-> 0,
            snap |-> EmptyMap, before |-> file, err |-> FALSE,
                    rmerr |-> FALSE, ver |-> 0, made |-> FALSE]
  /\ req' = [req EXCEPT ![r].pc = "saving"]
  /\ last' = NoResp
  /\ nmut' = nmut + 1
  /\ UNCHANGED <<disk, proc, minted, ops, faults, hist, fver>>

\* variant: the flip is made without _store_lock and without a save
ToggleState_Unlocked(r) ==
  /\ req[r].op = "toggle"
  /\ req[r].pc = "start"
  /\ IF req[r].guid \notin DOMAIN toggles
     THEN /\ last' = Resp(r, 404, FALSE)
          /\ UNCHANGED <<toggles, lastOk, ntog, nmut>>
     ELSE /\ toggles' = [toggles EXCEPT ![req[r].guid] = ~toggles[req[r].guid]]
          /\ last' = Resp(r, 200, ~toggles[req[r].guid])
          /\ lastOk' = [lastOk EXCEPT ![req[r].guid] = BoolLit(~toggles[req[r].guid])]
          /\ ntog' = [ntog EXCEPT ![req[r].guid] = ntog[req[r].guid] + 1]
          /\ nmut' = nmut + 1
  /\ req' = [req EXCEPT ![r] = IdleReq]
  /\ UNCHANGED <<lock, sv, disk, proc, minted, ops, faults, clean, base, fver>>

\* app.py toggle_state: take the lock; 404 for an unknown guid, else flip and save
ToggleState(r) ==
  /\ req[r].op = "toggle"
  /\ req[r].pc = "start"
  /\ lock = NoOwner
  /\ IF req[r].guid \notin DOMAIN toggles
     THEN /\ last' = Resp(r, 404, FALSE)
          /\ req' = [req EXCEPT ![r] = IdleReq]
          /\ UNCHANGED <<toggles, lock, sv, nmut>>
     ELSE /\ lock' = r
          /\ toggles' = [toggles EXCEPT ![req[r].guid] = ~toggles[req[r].guid]]
          /\ sv' = StartSave(r)
          /\ req' = [req EXCEPT ![r].pc = "saving"]
          /\ last' = NoResp
          /\ nmut' = nmut + 1
  /\ UNCHANGED <<disk, proc, minted, ops, faults, hist, fver>>

\* variant: the exception of the save is swallowed and success is answered
SaveReturn_Swallow(r) ==
  /\ req[r].pc = "saving"
  /\ sv.pc = "ret"
  /\ sv.owner = r
  /\ lock' = NoOwner
  /\ sv' = IdleSave
  /\ LET g == req[r].guid
         st == IF req[r].op = "create" THEN FALSE ELSE toggles[g]
     IN /\ last' = Resp(r, 200, st)
        /\ req' = [req EXCEPT ![r] = IdleReq]
        /\ lastOk' = IF sv.err THEN lastOk ELSE [lastOk EXCEPT ![g] = BoolLit(st)]
        /\ ntog' = IF req[r].op = "toggle" THEN [ntog EXCEPT ![g] = ntog[g] + 1] ELSE ntog
  /\ clean' = (clean /\ ~sv.err)
  /\ UNCHANGED <<toggles, disk, proc, minted, ops, faults, base, vers>>

\* variant: acquire() and release() without try/finally: an exception of the
\* save skips the release
SaveReturn_LeakOnError(r) ==
  /\ req[r].pc = "saving"
  /\ sv.pc = "ret"
  /\ sv.owner = r
  /\ lock' = IF sv.err THEN lock ELSE NoOwner
  /\ sv' = IdleSave
  /\ LET g == req[r].guid
         st == IF req[r].op = "create" THEN FALSE ELSE toggles[g]
     IN /\ last' = Resp(r, IF sv.err THEN 500 ELSE 200, st)
        /\ req' = [req EXCEPT ![r] = IdleReq]
        /\ lastOk' = IF sv.err THEN lastOk ELSE [lastOk EXCEPT ![g] = BoolLit(st)]
        /\ ntog' = IF req[r].op = "toggle" THEN [ntog EXCEPT ![g] = ntog[g] + 1] ELSE ntog
  /\ clean' = (clean /\ ~sv.err)
  /\ UNCHANGED <<toggles, disk, proc, minted, ops, faults, base, vers>>

\* the awaited save is over: the response (or the error) leaves, the lock is released
SaveReturn(r) ==
  /\ req[r].pc = "saving"
  /\ sv.pc = "ret"
  /\ sv.owner = r
  /\ lock' = NoOwner
  /\ sv' = IdleSave
  /\ LET g == req[r].guid
         st == IF req[r].op = "create" THEN FALSE ELSE toggles[g]
     IN /\ last' = Resp(r, IF sv.err THEN 500 ELSE 200, st)
        /\ req' = [req EXCEPT ![r] = IdleReq]
        /\ lastOk' = IF sv.err THEN lastOk ELSE [lastOk EXCEPT ![g] = BoolLit(st)]
        /\ ntog' = IF req[r].op = "toggle" THEN [ntog EXCEPT ![g] = ntog[g] + 1] ELSE ntog
  /\ clean' = (clean /\ ~sv.err)
  /\ UNCHANGED <<toggles, disk, proc, minted, ops, faults, base, vers>>

\* variant: the read is made under _store_lock
GetStatusReq_Locked(g) ==
  /\ phase = "serving"
  /\ lock = NoOwner
  /\ g \in minted \/ \A h \in Ids \ minted : g <= h
  /\ ops < MaxOps
  /\ ops' = ops + 1
  /\ LET res == GetStatus(g)
     IN last' = [op |-> "status", guid |-> g, code |-> res.code, state |-> res.state]
  /\ UNCHANGED <<toggles, lock, req, sv, disk, proc, minted, faults, hist, vers>>

\* get_status: no lock, no await; admitted and answered in one piece
GetStatusReq(g) ==
  /\ phase = "serving"
  /\ g \in minted \/ \A h \in Ids \ minted : g <= h
  /\ ops < MaxOps
  /\ ops' = ops + 1
  /\ LET res == GetStatus(g)
     IN last' = [op |-> "status", guid |-> g, code |-> res.code, state |-> res.state]
  /\ UNCHANGED <<toggles, lock, req, sv, disk, proc, minted, faults, hist, vers>>

Lifecycle ==
  \/ StartupLoad
  \/ StartupReplace
  \/ OnShutdown
  \/ OnShutdownReturn
  \/ Crash
  \/ Restart

Next ==
  \/ Lifecycle
  \/ SaveThread
  \/ \E r \in Reqs, op \in {"create", "toggle"}, g \in Ids : ReqBegin(r, op, g)
  \/ \E r \in Reqs : CreateToggle(r)
  \/ \E r \in Reqs : ToggleState(r)
  \/ \E r \in Reqs : SaveReturn(r)
  \/ \E g \in Ids : GetStatusReq(g)

Spec == Init /\ [][Next]_vars

\* ---- main.py: toggle_state is a plain def, run in a pool thread, ----
\* ---- without _store_lock and without save_toggles                 ----
\* if guid not in toggles: 404; else the right-hand side reads toggles[guid]
MainToggleRead(r) ==
  /\ ThreadAlive
  /\ req[r].op = "toggle"
  /\ req[r].pc = "start"
  /\ IF req[r].guid \notin DOMAIN toggles
     THEN /\ last' = Resp(r, 404, FALSE)
          /\ req' = [req EXCEPT ![r] = IdleReq]
     ELSE /\ req' = [req EXCEPT ![r].pc = "write", ![r].v = toggles[req[r].guid]]
          /\ last' = NoResp
  /\ UNCHANGED <<toggles, lock, sv, disk, proc, minted, ops, faults, hist, vers>>

\* toggles[guid] = not <value read>
MainToggleWrite(r) ==
  /\ ThreadAlive
  /\ req[r].op = "toggle"
  /\ req[r].pc = "write"
  /\ toggles' = [toggles EXCEPT ![req[r].guid] = ~req[r].v]
  /\ req' = [req EXCEPT ![r].pc = "resp"]
  /\ last' = NoResp
  /\ nmut' = nmut + 1
  /\ UNCHANGED <<lock, sv, disk, proc, minted, ops, faults, hist, fver>>

\* return {"guid": guid, "state": toggles[guid]}
MainToggleResp(r) ==
  /\ ThreadAlive
  /\ req[r].op = "toggle"
  /\ req[r].pc = "resp"
  /\ LET g == req[r].guid
     IN /\ last' = Resp(r, 200, toggles[g])
        /\ lastOk' = [lastOk EXCEPT ![g] = BoolLit(toggles[g])]
        /\ ntog' = [ntog EXCEPT ![g] = ntog[g] + 1]
  /\ req' = [req EXCEPT ![r] = IdleReq]
  /\ UNCHANGED <<toggles, lock, sv, disk, proc, minted, ops, faults, clean, base, vers>>

NextMain ==
  \/ Lifecycle
  \/ SaveThread
  \/ \E r \in Reqs, op \in {"create", "toggle"}, g \in Ids : ReqBegin(r, op, g)
  \/ \E r \in Reqs : CreateToggle(r)
  \/ \E r \in Reqs : SaveReturn(r)
  \/ \E r \in Reqs : MainToggleRead(r)
  \/ \E r \in Reqs : MainToggleWrite(r)
  \/ \E r \in Reqs : MainToggleResp(r)
  \/ \E g \in Ids : GetStatusReq(g)

SpecMain == Init /\ [][NextMain]_vars

\* ---- the persistence engine alone: save(path, M), then load(path) ----
InitRT ==
  /\ toggles \in AllMappings
  /\ \E M \in AllMappings :
       /\ file \in {NoFile, FileOf(Serialize(M))}
       /\ installed = M
       /\ file.exists \/ M = EmptyMap
  /\ sv = [IdleSave EXCEPT !.pc = "mkstemp", !.before = file]
  /\ minted = DOMAIN toggles
  /\ lock = NoOwner
  /\ req = [r \in Reqs |-> IdleReq]
  /\ last = NoResp
  /\ tmp = NoFile
  /\ phase = "save"
  /\ data = EmptyMap
  /\ ops = 0
  /\ restarted = FALSE
  /\ faults = 0
  /\ lastOk = [g \in Ids |-> "none"]
  /\ clean = TRUE
  /\ ntog = [g \in Ids |-> 0]
  /\ base = [g \in Ids |-> FALSE]
  /\ nmut = 0
  /\ fver = 0

\* load(path) once save has returned or raised
LoadBack ==
  /\ phase = "save"
  /\ sv.pc = "ret"
  /\ data' = LoadSync(file)
  /\ phase' = "loadback"
  /\ last' = NoResp
  /\ UNCHANGED <<toggles, lock, req, sv, disk, minted, ops, restarted, faults, hist, vers>>

NextRT ==
  \/ SaveThread
  \/ LoadBack

SpecRT == InitRT /\ [][NextRT]_vars

\* ---- startup on whatever is at the path ----
InitLoad ==
  /\ file \in {NoFile} \cup {FileOf(c) : c \in Contents}
  /\ installed = EmptyMap
  /\ minted = Ids
  /\ toggles = EmptyMap
  /\ lock = NoOwner
  /\ req = [r \in Reqs |-> IdleReq]
  /\ last = NoResp
  /\ sv = IdleSave
  /\ tmp = NoFile
  /\ phase = "starting"
  /\ data = EmptyMap
  /\ ops = 0
  /\ restarted = FALSE
  /\ faults = 0
  /\ lastOk = [g \in Ids |-> "none"]
  /\ clean = TRUE
  /\ ntog = [g \in Ids |-> 0]
  /\ base = [g \in Ids |-> FALSE]
  /\ nmut = 0
  /\ fver = 0

NextLoad ==
  \/ StartupLoad
  \/ StartupReplace
  \/ \E g \in Ids : GetStatusReq(g)

SpecLoad == InitLoad /\ [][NextLoad]_vars

\* ---- one run of the service that is not killed, under fair scheduling: ----
\* the worker thread goes on (file I/O terminates), a resumed coroutine runs,
\* and asyncio.Lock wakes its waiters in turn
NextLive ==
  \/ StartupLoad
  \/ StartupReplace
  \/ OnShutdown
  \/ OnShutdownReturn
  \/ SaveThread
  \/ \E r \in Reqs, op \in {"create", "toggle"}, g \in Ids : ReqBegin(r, op, g)
  \/ \E r \in Reqs : CreateToggle(r)
  \/ \E r \in Reqs : ToggleState(r)
  \/ \E r \in Reqs : SaveReturn(r)
  \/ \E g \in Ids : GetStatusReq(g)

\* some step of a running save, of a coroutine whose save is over, or of a
\* waiter for the free lock is eventually taken while one is possible
Progress ==
  \/ SaveThread
  \/ OnShutdownReturn
  \/ \E r \in Reqs : SaveReturn(r)
  \/ \E r \in Reqs : CreateToggle(r)
  \/ \E r \in Reqs : ToggleState(r)

Fairness == WF_vars(Progress)

SpecLive == Init /\ [][NextLive]_vars /\ Fairness

\* ---- properties ----
Answered(r) == req[r].pc # "idle" /\ req'[r].pc = "idle" /\ last'.code # 0
Persisted == LoadSync(file)

\* C1 (app.py): when create or toggle answers 200, the file already holds the
\* full snapshot with that request's mutation; the file changes during a request's
\* save only while that request holds the lock, after its mutation, before its answer.
C1_PersistedBeforeResponse ==
  [][\A r \in Reqs :
       /\ (Answered(r) /\ last'.code = 200) =>
            /\ lock = r
            /\ file.exists
            /\ file.content = Serialize(toggles)
            /\ req[r].guid \in DOMAIN Persisted
            /\ Persisted[req[r].guid] = last'.state
       /\ (file' # file /\ sv.owner = r) =>
            /\ lock = r
            /\ req[r].pc = "saving"
            /\ req'[r].pc = "saving"
            /\ req[r].guid \in DOMAIN toggles
            /\ file'.content = Serialize(toggles)
  ]_vars

C1_Witness ==
  /\ last.op = "toggle"
  /\ last.code = 200
  /\ last.state
  /\ file.exists
  /\ last.guid \in DOMAIN Persisted
  /\ Persisted[last.guid]

Xor(a, b) == a # b

\* C2 (app.py): with no toggle in flight, each guid's state is its initial state
\* XOR (number of completed toggles mod 2); once the last answer is a toggle's
\* success and no request is in flight, the file is exactly the in-memory map.
C2_ToggleParity ==
  /\ (\A r \in Reqs : req[r].pc \in {"idle", "start"}) =>
       \A g \in DOMAIN toggles : toggles[g] = Xor(base[g], ntog[g] % 2 = 1)
  /\ ((\A r \in Reqs : req[r].pc = "idle") /\ last.op = "toggle" /\ last.code = 200) =>
       /\ file.exists
       /\ file.content = Serialize(toggles)
       /\ Persisted = toggles

C2_Witness ==
  /\ \A r \in Reqs : req[r].pc = "idle"
  /\ last.op = "toggle"
  /\ last.code = 200
  /\ ntog[last.guid] = 2
  /\ toggles[last.guid] = base[last.guid]
  /\ Persisted = toggles

\* C3 (main.py), as claimed: a toggle's flip never happens while another request
\* holds the lock around its mutate-and-persist section, and N toggles leave the
\* state at initial XOR (N mod 2).
C3_MainToggleExclusive ==
  /\ [][\A r \in Reqs :
          (req[r].op = "toggle" /\ toggles' # toggles /\ req'[r].pc = "resp") =>
            lock \notin (Reqs \ {r})]_vars
  /\ []((\A r \in Reqs : req[r].pc \in {"idle", "start"}) =>
          \A g \in DOMAIN toggles : toggles[g] = Xor(base[g], ntog[g] % 2 = 1))

\* C4 (main.py), as claimed: when toggle answers 200 the file holds a snapshot
\* in which the guid has the returned state.
C4_MainTogglePersisted ==
  [][\A r \in Reqs :
       (req[r].op = "toggle" /\ Answered(r) /\ last'.code = 200) =>
         /\ file.exists
         /\ req[r].guid \in DOMAIN Persisted
         /\ Persisted[req[r].guid] = last'.state
  ]_vars

\* C5: in every state, also mid-save, after a failed save and after a crash, the
\* target file is absent or is the complete serialisation of the snapshot taken by
\* the one save that installed it.
C5_FileWholeOrAbsent ==
  file.exists => file.content = Serialize(installed)

C5_Witness ==
  /\ phase = "crashed"
  /\ sv.pc = "write"
  /\ tmp.exists
  /\ Len(tmp.content) >= 2
  /\ file.exists
  /\ tmp.content # file.content

BeforeRename == {"dump", "write", "fsync", "replace"}

\* C6: at every point of a save between the creation of the temp file and the
\* rename, and so after an interruption there, the target file is what it was
\* when the save started.
C6_UnchangedUntilRename ==
  sv.pc \in BeforeRename => file = sv.before

C6_Witness ==
  /\ phase = "crashed"
  /\ sv.pc \in {"fsync", "replace"}
  /\ tmp.exists
  /\ file.exists
  /\ file = sv.before
  /\ tmp.content # file.content

\* C7 (app.py): after a restart, when every mutation so far was answered with
\* success, GET /status/{id} returns for every guid the state of its last
\* successful mutation.
C7_StatusAfterRestart ==
  (/\ restarted
   /\ phase = "serving"
   /\ clean
   /\ \A r \in Reqs : req[r].pc \in {"idle", "start"}) =>
     \A g \in Ids : lastOk[g] # "none" =>
       GetStatus(g) = [code |-> 200, state |-> (lastOk[g] = "true")]

C7_Witness ==
  /\ restarted
  /\ clean
  /\ last.op = "status"
  /\ ntog[last.guid] = 0
  /\ last.code = 200
  /\ last.state
  /\ lastOk[last.guid] = "true"

\* C8: the shutdown flush runs holding the store lock with no mutator inside its
\* mutate-and-persist section; when it has completed the file is the in-memory
\* map; afterwards nothing of the process changes the store or the file.
C8_ShutdownFlushLast ==
  /\ [](phase = "flushing" =>
          /\ lock = LifespanTask
          /\ sv.owner = LifespanTask
          /\ \A r \in Reqs : req[r].pc = "idle")
  /\ []((phase = "stopped" /\ last.code = 200) =>
          /\ file.exists
          /\ file.content = Serialize(toggles))
  /\ [](phase = "stopped" =>
          /\ sv.pc = "idle"
          /\ lock = NoOwner
          /\ \A r \in Reqs : req[r].pc = "idle")
  /\ [][phase = "stopped" => (phase' = "starting" \/ UNCHANGED <<toggles, file>>)]_vars

C8_Witness ==
  /\ phase = "stopped"
  /\ last.op = "shutdown"
  /\ last.code = 200
  /\ lastOk # [g \in Ids |-> "none"]
  /\ file.content = Serialize(toggles)

\* C9: toggle and status of a guid that is not in the store answer 404 and leave
\* the map, the file and the save thread as they were.
C9_UnknownGuid404 ==
  [][/\ \A r \in Reqs :
          (/\ req[r].op = "toggle"
           /\ req[r].pc = "start"
           /\ req[r].guid \notin DOMAIN toggles
           /\ req'[r] # req[r]
           /\ phase' # "crashed") =>
             /\ last' = [op |-> "toggle", guid |-> req[r].guid, code |-> 404, state |-> FALSE]
             /\ UNCHANGED <<toggles, file, tmp, sv, lock>>
     /\ \A g \in Ids \ DOMAIN toggles :
          (last' # last /\ last'.op = "status" /\ last'.guid = g) =>
             /\ last'.code = 404
             /\ UNCHANGED <<toggles, file, tmp, sv, lock>>
  ]_vars

C9_Witness ==
  /\ last.op = "toggle"
  /\ last.code = 404
  /\ last.guid \notin DOMAIN toggles
  /\ toggles # EmptyMap

\* C10: a save of M that succeeds, followed by a load of the same path, returns
\* a mapping with exactly the keys of M and the same value for each key.
C10_RoundTrip ==
  (phase = "loadback" /\ ~sv.err) =>
     /\ DOMAIN data = DOMAIN toggles
     /\ \A k \in DOMAIN toggles : data[k] = toggles[k]

C10_Witness ==
  /\ phase = "loadback"
  /\ ~sv.err
  /\ Cardinality(DOMAIN toggles) = 2
  /\ \E j, k \in DOMAIN data : data[j] /\ ~data[k]
  /\ sv.before.exists
  /\ sv.before.content # file.content

\* C11, as claimed: whenever the file exists and its content is not the expected
\* JSON object (invalid or truncated JSON, a non-object value, undecodable bytes),
\* the startup load returns the empty mapping and startup goes on with an empty store.
C11_MalformedLoadsEmpty ==
  (file.exists /\ ~IsObject(file.content) /\ phase # "starting") =>
     /\ phase \in {"loaded", "serving"}
     /\ data = EmptyMap
     /\ toggles = EmptyMap

\* C12: with no file at the path the load returns the empty mapping, raises
\* nothing and creates no file; the service starts with an empty store and
\* GET /status/{id} answers 404 for every id.
C12_MissingFileEmptyStore ==
  /\ [][(phase = "starting" /\ ~file.exists /\ phase' # phase) =>
          (phase' = "loaded" /\ data' = EmptyMap /\ ~file'.exists)]_vars
  /\ [](~file.exists => phase # "failed")
  /\ []((~file.exists /\ phase = "serving") =>
          /\ toggles = EmptyMap
          /\ \A g \in Ids : GetStatus(g).code = 404
          /\ (last.op = "status" => last.code = 404))

C12_Witness ==
  /\ ~file.exists
  /\ phase = "serving"
  /\ last.op = "status"
  /\ last.guid > 1
  /\ last.code = 404

\* C13 (app.py): when the save of a create or toggle fails, the request is
\* answered with an error, the mutation stays in the map (the created guid is
\* there with False, the toggled guid is flipped), no second save is started,
\* and the target file is what it was when the request's save began.
C13_SaveFailureSurfaced ==
  [][\A r \in Reqs :
       (req[r].pc = "saving" /\ sv.owner = r /\ sv.err /\ req'[r] # req[r]
          /\ phase' # "crashed") =>
         /\ last'.code = 500
         /\ last'.op = req[r].op
         /\ req'[r] = IdleReq
         /\ toggles' = toggles
         /\ req[r].guid \in DOMAIN toggles
         /\ toggles[req[r].guid] = Xor(base'[req[r].guid], ntog'[req[r].guid] % 2 = 1)
         /\ sv' = IdleSave
         /\ lock' = NoOwner
         /\ file' = sv.before
  ]_vars

C13_Witness ==
  /\ last.op = "toggle"
  /\ last.code = 500
  /\ file.exists
  /\ last.guid \in DOMAIN Persisted
  /\ last.guid \in DOMAIN toggles
  /\ Persisted[last.guid] # toggles[last.guid]
  /\ sv.pc = "idle"

\* C14, as claimed: once a save has returned or raised, the temp file it created
\* is gone, and a failed save is still reported as failed.
C14_TempFileGone ==
  sv.pc = "ret" => (~(sv.made /\ tmp.exists) /\ (sv.rmerr => sv.err))

\* C14, amended: once a save has returned or raised, the temp file it created is
\* gone unless os.remove itself failed; that failure is swallowed, it happens
\* only after a failure of the save, and the save is still reported as failed.
C14_TempFileGoneUnlessRemoveFails ==
  sv.pc = "ret" =>
    /\ (sv.made /\ tmp.exists) <=> sv.rmerr
    /\ sv.rmerr => sv.err

C14_Witness ==
  /\ sv.pc = "ret"
  /\ sv.err
  /\ sv.n >= 1
  /\ ~sv.rmerr
  /\ ~tmp.exists
  /\ file.exists

\* C15 (app.py): whenever the file at the path is replaced, the snapshot put
\* there contains every mutation applied to the store so far, so it is never
\* older than the snapshot it replaces.
C15_FileNeverRegresses ==
  [][file' # file =>
       /\ fver' >= fver
       /\ fver' = nmut'
       /\ file'.content = Serialize(toggles')
  ]_vars

C15_Witness ==
  /\ req[1].pc = "idle"
  /\ req[2].pc = "saving"
  /\ sv.pc = "replace"
  /\ sv.ver = 2
  /\ fver = 1
  /\ file.exists
  /\ tmp.content # file.content

\* C16: requests are handled only once startup is over; serving begins only from
\* the end of on_startup, with the store equal to the mapping loaded from the
\* file; before that no request is in flight and nothing has been answered.
C16_LoadBeforeRequests ==
  /\ [][(phase' = "serving" /\ phase # "serving") =>
          /\ phase = "loaded"
          /\ toggles' = data
          /\ toggles' = LoadSync(file)]_vars
  /\ [](phase \in {"starting", "loaded"} =>
          /\ \A r \in Reqs : req[r].pc = "idle"
          /\ last.op \notin {"create", "toggle", "status"}
          /\ toggles = EmptyMap)
  /\ [][(last'.op \in {"create", "toggle", "status"} \/ \E r \in Reqs : InFlight(r)')
          => phase \in {"serving", "flushing"}]_vars

C16_Witness ==
  /\ phase = "serving"
  /\ ~restarted
  /\ ops = 1
  /\ nmut = 0
  /\ last.op = "status"
  /\ last.code = 200
  /\ last.state
  /\ toggles = LoadSync(file)

\* C17 (app.py): a status request for an existing guid can be answered in every
\* serving state, also while a mutator holds the lock during its save; it leaves
\* the lock, the store and the save alone and answers 200 with the value the
\* entry holds at that instant.
C17_StatusBypassesLock ==
  /\ []((phase = "serving" /\ ops < MaxOps) =>
          \A g \in DOMAIN toggles : ENABLED GetStatusReq(g))
  /\ [][(ops' = ops + 1 /\ last'.op = "status") =>
          /\ UNCHANGED <<lock, toggles, req, sv, tmp, file>>
          /\ last'.guid \in DOMAIN toggles =>
               (last'.code = 200 /\ last'.state = toggles[last'.guid])]_vars

C17_Witness ==
  /\ last.op = "status"
  /\ last.code = 200
  /\ lock \in Reqs
  /\ sv.pc = "write"
  /\ req[lock].op = "toggle"
  /\ file.exists
  /\ last.guid \in DOMAIN Persisted
  /\ Persisted[last.guid] # last.state

\* C18: the insert of a create adds exactly its guid, which was not in the map,
\* with state False, and changes no other entry; a create answered with success
\* returns that guid with state False and the guid is in the map; while a process
\* runs no step takes a guid out of the map, and only a create's insert adds one.
C18_CreateAddsOne ==
  /\ [][\A r \in Reqs :
          (req[r].op = "create" /\ req[r].pc = "start" /\ req'[r].pc = "saving") =>
            /\ req[r].guid \notin DOMAIN toggles
            /\ DOMAIN toggles' = DOMAIN toggles \cup {req[r].guid}
            /\ toggles'[req[r].guid] = FALSE
            /\ \A h \in DOMAIN toggles : toggles'[h] = toggles[h]]_vars
  /\ [][\A r \in Reqs :
          (req[r].op = "create" /\ Answered(r) /\ last'.code = 200) =>
            /\ req[r].guid \in DOMAIN toggles'
            /\ last'.state = FALSE
            /\ last'.guid = req[r].guid]_vars
  /\ [][phase' \notin {"crashed", "starting"} =>
          DOMAIN toggles \subseteq DOMAIN toggles']_vars
  /\ [][(DOMAIN toggles' # DOMAIN toggles /\ phase' \notin {"crashed", "starting"}) =>
          \/ phase = "loaded"
          \/ \E r \in Reqs : req[r].op = "create" /\ req'[r].pc = "saving"]_vars

C18_Witness ==
  /\ last.op = "create"
  /\ last.code = 200
  /\ Cardinality(DOMAIN toggles) = 2
  /\ \E h \in DOMAIN toggles : toggles[h]
  /\ ~toggles[last.guid]
  /\ Persisted = toggles

\* C19 (app.py): from the start of a save to its return the store does not
\* change while the process lives; so the snapshot json.dump takes is the store
\* as it was at the start, what has been written is a prefix of its
\* serialisation, and what is flushed and renamed is all of it.
C19_NoMutationDuringSave ==
  /\ [][(sv.pc # "idle" /\ phase' # "crashed") => toggles' = toggles]_vars
  /\ []((ThreadAlive /\ sv.pc \in {"write", "fsync", "replace", "finally", "ret"} /\ ~sv.err) =>
          sv.snap = toggles)
  /\ []((ThreadAlive /\ sv.pc = "write") =>
          tmp.content = SubSeq(Serialize(toggles), 1, sv.n + 1))
  /\ []((ThreadAlive /\ sv.pc \in {"fsync", "replace"}) =>
          tmp.content = Serialize(toggles))

C19_Witness ==
  /\ lock \in Reqs
  /\ sv.owner = lock
  /\ sv.pc = "replace"
  /\ \E r \in Reqs : req[r].pc = "start" /\ req[r].guid \in DOMAIN toggles
  /\ Len(tmp.content) >= 3
  /\ tmp.content = Serialize(toggles)
  /\ tmp.content # file.content

\* C20 (app.py): the lock is held only by a request inside its save or by the
\* shutdown flush, and every answer of a mutating request (200, 404 or 500)
\* leaves it free; in a run that is not killed, with fair scheduling and
\* terminating file I/O, every admitted create and toggle is answered (which it
\* is only after it has held the lock), and a shutdown flush that has begun
\* completes.
C20_LockReleasedAndProgress ==
  /\ [](\A r \in Reqs : lock = r => req[r].pc = "saving")
  /\ [](lock = LifespanTask => phase = "flushing")
  /\ [][\A r \in Reqs : Answered(r) => lock' = NoOwner]_vars
  /\ \A r \in Reqs : InFlight(r) ~> ~InFlight(r)
  /\ (phase = "flushing") ~> (phase = "stopped" /\ lock = NoOwner)

C20_Witness ==
  /\ last.code = 500
  /\ last.op \in {"create", "toggle"}
  /\ lock = NoOwner
  /\ \E r \in Reqs : req[r].pc = "start"
=============================================================================
